---- MODULE Spec2Model ----
(***************************************************************************)
(* FMUSimulation (kub/course/simlib/simulation.py): the lifecycle wrapper  *)
(* around an FMI co-simulation handle, driven by caller threads.           *)
(*                                                                         *)
(* One instance is modelled.  Every caller thread repeatedly invokes one   *)
(* public method; a method is cut into steps at the points where another   *)
(* thread can observe or change the instance: every read or write of       *)
(* self.state, self.start/stop/step, every acquisition of self.lock and    *)
(* every call to the handle self.fmu.  The handle is a stub that stores    *)
(* the values written to it, may fail the calls that the engine can fail,  *)
(* and records the last call it received and whether it failed it.         *)
(***************************************************************************)
EXTENDS Integers, Sequences, FiniteSets, TLC

VARIABLES
    state,      \* self.state
    lock,       \* self.lock: the thread holding it, or None
    start,      \* self.start
    stop,       \* self.stop
    step,       \* self.step
    values,     \* the handle: value stored under each value reference
    lastCall,   \* the handle: the last call it received
    sinceStep,  \* the handle: who called a setter since the last doStep of the
                \* stepping loop in progress (the methods that did)
    callers,    \* the caller threads holding a reference to the instance
    pc,         \* per thread: position inside the method it is executing
    op,         \* per thread: the method it is executing or executed last
    arg,        \* per thread: the method's argument (what is left of it)
    i,          \* per thread: index of the entry a loop of run or set is at
    time,       \* per thread: run's local variable time
    data,       \* per thread: run's local variable data
    res         \* per thread: outcome of the method executed last

vars == <<state, lock, start, stop, step, values, lastCall, sinceStep,
          callers, pc, op, arg, i, time, data, res>>

----------------------------------------------------------------------------
(* Bounds of the model *)

\* largest stop time an experiment window is given
MaxStop == 2

\* largest stop time and largest time step of the windows a lone caller gives
MaxRunStop == 4
MaxRunStep == 3

\* the steps the model follows a loop that never ends for
MaxDoSteps == MaxRunStop + 1

Threads == {"T1", "T2"}

None == "None"
Unset == "unset"

----------------------------------------------------------------------------
(* class FMUState *)

FMUState == {"CREATED", "INSTANTIATED", "INITIALIZATION_MODE", "INITIALIZED",
             "SIMULATION", "TERMINATED"}

(* self.vrs: variable name -> value reference *)
vrs == ("x" :> "vr_x") @@ ("y" :> "vr_y")

\* names a caller may use: a declared one and one the model does not declare
VarNames == {"x", "X"}

(* values a caller may pass, tagged with their Python class *)
PyValue(cls, v) == [cls |-> cls, v |-> v]

\* isinstance(value, cls): bool is a subclass of int
IsInstance(value, cls) ==
    \/ value.cls = cls
    \/ value.cls = "bool" /\ cls = "int"

\* a chain that passes a value of any other class to setString
SetterLenient(value) ==
    IF IsInstance(value, "float") THEN "setReal"
    ELSE IF IsInstance(value, "int") THEN "setInteger"
    ELSE IF IsInstance(value, "bool") THEN "setBoolean"
    ELSE "setString"

(* the if/elif chain of set: the handle's setter a value is passed to *)
Setter(value) ==
    IF IsInstance(value, "float") THEN "setReal"
    ELSE IF IsInstance(value, "int") THEN "setInteger"
    ELSE IF IsInstance(value, "bool") THEN "setBoolean"
    ELSE IF IsInstance(value, "str") THEN "setString"
    ELSE "TypeError"

Setters == {"setReal", "setInteger", "setBoolean", "setString"}

Entry(name, value) == [name |-> name, value |-> value]

\* the dictionaries passed to set, initParameters and updateInputs, as the
\* sequence of their items in iteration order
InputDics ==
    { <<Entry("x", PyValue("float", 1))>>,
      <<Entry("x", PyValue("float", 1)), Entry("X", PyValue("float", 1))>> }

\* the lists of output names passed to run
OutputLists == { <<>>, <<"x">>, <<"X">> }

\* the (startTime, stopTime, timeStep) passed to initialize
Windows == { [start |-> 0, stop |-> MaxStop, step |-> d] : d \in {1, MaxStop} }

----------------------------------------------------------------------------
(* outcomes of a method call *)

Pending == [err |-> "pending", val |-> None, msg |-> <<>>]
Ok(v) == [err |-> "none", val |-> v, msg |-> <<>>]
Err(e) == [err |-> e, val |-> None, msg |-> <<>>]

\* the TypeError of set: its message names the variable
TypeErr(name) == [err |-> "TypeError", val |-> None, msg |-> <<name>>]

\* a KeyError that does not say which name was looked up
KeyErrAnonymous(name) == [err |-> "KeyError", val |-> None, msg |-> <<>>]

\* the KeyError of a name that self.vrs does not hold: it carries the name
KeyErr(name) == [err |-> "KeyError", val |-> None, msg |-> <<name>>]

\* the place of each state in class FMUState (auto() numbers them in order)
Rank(s) ==
    CASE s = "CREATED" -> 1
      [] s = "INSTANTIATED" -> 2
      [] s = "INITIALIZATION_MODE" -> 3
      [] s = "INITIALIZED" -> 4
      [] s = "SIMULATION" -> 5
      [] s = "TERMINATED" -> 6

\* a gate that lets every state at or past the required one through
RequireOkAtLeast(expected) == Rank(state) >= Rank(expected)

\* require_state: the check, and the RuntimeError it raises
RequireOk(expected) == state = expected

\* a RuntimeError that names the method and the required state only
StateErrNoActual(expected, method) ==
    [err |-> "RuntimeError", val |-> None, msg |-> <<method, expected>>]

StateErr(expected, method) ==
    [err |-> "RuntimeError", val |-> None, msg |-> <<method, expected, state>>]

\* the handle records a call, who issued it and whether it succeeded; tick
\* alternates with every call, so that a step issues a call exactly when it
\* changes lastCall
IssueWith(call, t, ok, args) ==
    [op |-> call, th |-> t, ok |-> ok, tick |-> 1 - lastCall.tick,
     args |-> args]

\* the arguments of the calls, by keyword
NoArgs == [none |-> None]
GetArgs(vr) == [vr |-> vr]
SetArgs(vr, value) == [vr |-> vr, value |-> value]
StepArgs(t, h) == [currentCommunicationPoint |-> t, communicationStepSize |-> h]

\* a call whose arguments the model does not follow
Issue(call, t, ok) == IssueWith(call, t, ok, NoArgs)

NoCall ==
    [op |-> "instantiate", th |-> None, ok |-> TRUE, tick |-> 0, args |-> NoArgs]

\* a lock released by hand at the end of the block: an exception skips it
WithExitNoFinally(t, raised) == IF raised THEN lock ELSE None

\* leaving a "with self.lock:" block, normally or by an exception
WithExit(t, raised) == None

\* the method of thread t returns or raises: its frame is dropped
Done(t, r) ==
    /\ pc' = [pc EXCEPT ![t] = "idle"]
    /\ res' = [res EXCEPT ![t] = r]
    /\ arg' = [arg EXCEPT ![t] = <<>>]
    /\ i' = [i EXCEPT ![t] = 1]
    /\ time' = [time EXCEPT ![t] = 0]
    /\ data' = [data EXCEPT ![t] = <<>>]

\* thread t moves to position p with argument a
Goto(t, p, a) ==
    /\ pc' = [pc EXCEPT ![t] = p]
    /\ arg' = [arg EXCEPT ![t] = a]
    /\ res' = [res EXCEPT ![t] = Pending]

Enter(t, method) ==
    /\ pc[t] = "idle"
    /\ op' = [op EXCEPT ![t] = method]

----------------------------------------------------------------------------
(* __init__ has run: the handle is instantiated *)

Init ==
    /\ state = "INSTANTIATED"
    /\ lock = None
    /\ start = Unset /\ stop = Unset /\ step = Unset
    /\ values = [r \in {vrs[n] : n \in DOMAIN vrs} |-> 0]
    /\ lastCall = NoCall
    /\ sinceStep = {}
    /\ callers \in {{"T1"}, Threads}
    /\ pc = [t \in Threads |-> "idle"]
    /\ op = [t \in Threads |-> "none"]
    /\ arg = [t \in Threads |-> <<>>]
    /\ i = [t \in Threads |-> 1]
    /\ time = [t \in Threads |-> 0]
    /\ data = [t \in Threads |-> <<>>]
    /\ res = [t \in Threads |-> Pending]

----------------------------------------------------------------------------
(* steps shared by the methods *)

\* "with self.lock:" is entered: the thread waits until the lock is free
Acquire(t, from, to) ==
    /\ pc[t] = from
    /\ lock = None
    /\ lock' = t
    /\ pc' = [pc EXCEPT ![t] = to]
    /\ UNCHANGED <<state, start, stop, step, values, lastCall, sinceStep, callers,
                   op, arg, i, time, data, res>>

\* a call to the handle inside a "with self.lock:" block; the engine may fail
\* it, and the exception then leaves the block and the method
EngineCall(t, call, from, to) ==
    /\ pc[t] = from
    /\ \E ok \in BOOLEAN :
         /\ lastCall' = Issue(call, t, ok)
         /\ IF ok
              THEN /\ pc' = [pc EXCEPT ![t] = to]
                   /\ UNCHANGED <<lock, arg, i, time, data, res>>
              ELSE /\ lock' = WithExit(t, TRUE)
                   /\ Done(t, Err("EngineError"))
    /\ UNCHANGED <<state, start, stop, step, values, sinceStep, callers, op>>

\* a block that is left without assigning self.state
ReturnWithoutAssigning(t, from, s) ==
    /\ pc[t] = from
    /\ lock' = WithExit(t, FALSE)
    /\ Done(t, Ok(None))
    /\ UNCHANGED <<state, start, stop, step, values, lastCall, sinceStep, callers, op>>

\* the last statement of a "with self.lock:" block assigns self.state; the
\* block is left and the method returns None
AssignStateAndReturn(t, from, s) ==
    /\ pc[t] = from
    /\ state' = s
    /\ lock' = WithExit(t, FALSE)
    /\ Done(t, Ok(None))
    /\ UNCHANGED <<start, stop, step, values, lastCall, sinceStep, callers, op>>

----------------------------------------------------------------------------
(* initialize(startTime, stopTime, timeStep) *)

\* an initialize that stores the window before it checks the state
InitializeStoresFirst(t, w) ==
    /\ Enter(t, "initialize")
    /\ start' = w.start /\ stop' = w.stop /\ step' = w.step
    /\ IF RequireOk("INSTANTIATED")
         THEN /\ Goto(t, "init_lock", w)
              /\ UNCHANGED <<i, time, data>>
         ELSE Done(t, StateErr("INSTANTIATED", "initialize"))
    /\ UNCHANGED <<state, lock, values, lastCall, sinceStep, callers>>

InitializeCall(t, w) ==
    /\ Enter(t, "initialize")
    /\ IF RequireOk("INSTANTIATED")
         THEN /\ Goto(t, "init_start", w)
              /\ UNCHANGED <<i, time, data>>
         ELSE Done(t, StateErr("INSTANTIATED", "initialize"))
    /\ UNCHANGED <<state, lock, start, stop, step, values, lastCall, sinceStep, callers>>

InitializeStart(t) ==
    /\ pc[t] = "init_start"
    /\ start' = arg[t].start
    /\ pc' = [pc EXCEPT ![t] = "init_stop"]
    /\ UNCHANGED <<state, lock, stop, step, values, lastCall, sinceStep, callers,
                   op, arg, i, time, data, res>>

InitializeStop(t) ==
    /\ pc[t] = "init_stop"
    /\ stop' = arg[t].stop
    /\ pc' = [pc EXCEPT ![t] = "init_step"]
    /\ UNCHANGED <<state, lock, start, step, values, lastCall, sinceStep, callers,
                   op, arg, i, time, data, res>>

InitializeStep(t) ==
    /\ pc[t] = "init_step"
    /\ step' = arg[t].step
    /\ pc' = [pc EXCEPT ![t] = "init_lock"]
    /\ UNCHANGED <<state, lock, start, stop, values, lastCall, sinceStep, callers,
                   op, arg, i, time, data, res>>

InitializeLock(t) == Acquire(t, "init_lock", "init_setup")

InitializeSetup(t) == EngineCall(t, "setupExperiment", "init_setup", "init_enter")

InitializeEnter(t) ==
    EngineCall(t, "enterInitializationMode", "init_enter", "init_state")

InitializeState(t) == AssignStateAndReturn(t, "init_state", "INITIALIZATION_MODE")

----------------------------------------------------------------------------
(* exitInitialization() *)

ExitInitializationCall(t) ==
    /\ Enter(t, "exitInitialization")
    /\ IF RequireOk("INITIALIZATION_MODE")
         THEN /\ Goto(t, "exit_lock", <<>>)
              /\ UNCHANGED <<i, time, data>>
         ELSE Done(t, StateErr("INITIALIZATION_MODE", "exitInitialization"))
    /\ UNCHANGED <<state, lock, start, stop, step, values, lastCall, sinceStep, callers>>

ExitInitializationLock(t) == Acquire(t, "exit_lock", "exit_call")

ExitInitializationExit(t) ==
    EngineCall(t, "exitInitializationMode", "exit_call", "exit_state")

ExitInitializationState(t) == AssignStateAndReturn(t, "exit_state", "INITIALIZED")

----------------------------------------------------------------------------
(* terminate() *)

\* terminate without its early return
AlreadyTerminatedNever == FALSE

\* the early return of terminate
AlreadyTerminated == state = "TERMINATED"

TerminateCall(t) ==
    /\ Enter(t, "terminate")
    /\ IF AlreadyTerminated
         THEN Done(t, Ok(None))
         ELSE /\ Goto(t, "term_lock", <<>>)
              /\ UNCHANGED <<i, time, data>>
    /\ UNCHANGED <<state, lock, start, stop, step, values, lastCall, sinceStep, callers>>

TerminateLock(t) == Acquire(t, "term_lock", "term_call")

\* a terminate that assigns self.state before it calls the handle
TerminateAssignsFirst(t) ==
    /\ pc[t] = "term_call"
    /\ state' = "TERMINATED"
    /\ \E ok \in BOOLEAN :
         /\ lastCall' = Issue("terminate", t, ok)
         /\ IF ok
              THEN /\ pc' = [pc EXCEPT ![t] = "term_state"]
                   /\ UNCHANGED <<lock, arg, i, time, data, res>>
              ELSE /\ lock' = WithExit(t, TRUE)
                   /\ Done(t, Err("EngineError"))
    /\ UNCHANGED <<start, stop, step, values, sinceStep, callers, op>>

TerminateTerminate(t) == EngineCall(t, "terminate", "term_call", "term_state")

TerminateState(t) == AssignStateAndReturn(t, "term_state", "TERMINATED")

----------------------------------------------------------------------------
(* set(inputDic), initParameters(inputDic), updateInputs(inputDic) *)

\* set is public and takes no lock and checks no state
SetCall(t, d) ==
    /\ Enter(t, "set")
    /\ Goto(t, "set", d)
    /\ UNCHANGED <<state, lock, start, stop, step, values, lastCall, sinceStep, callers,
                   i, time, data>>

InitParametersCall(t, d) ==
    /\ Enter(t, "initParameters")
    /\ IF RequireOk("INITIALIZATION_MODE")
         THEN /\ Goto(t, "ip_lock", d)
              /\ UNCHANGED <<i, time, data>>
         ELSE Done(t, StateErr("INITIALIZATION_MODE", "initParameters"))
    /\ UNCHANGED <<state, lock, start, stop, step, values, lastCall, sinceStep, callers>>

InitParametersLock(t) == Acquire(t, "ip_lock", "set")

UpdateInputsCall(t, d) ==
    /\ Enter(t, "updateInputs")
    /\ IF RequireOk("SIMULATION")
         THEN /\ Goto(t, "ui_lock", d)
              /\ UNCHANGED <<i, time, data>>
         ELSE Done(t, StateErr("SIMULATION", "updateInputs"))
    /\ UNCHANGED <<state, lock, start, stop, step, values, lastCall, sinceStep, callers>>

UpdateInputsLock(t) == Acquire(t, "ui_lock", "set")

\* set returns or raises: initParameters and updateInputs called it inside
\* their "with self.lock:" block, a direct caller holds no lock
LeaveSet(t, raised) ==
    IF op[t] \in {"initParameters", "updateInputs"}
      THEN WithExit(t, raised)
      ELSE lock

\* a stepping loop is in progress and has issued a doStep
Stepping ==
    \E u \in Threads : /\ pc[u] \in {"run_loop", "run_sample"}
                        /\ Len(data[u]["time"]) > 1

\* float(value), int(value), bool(value), str(value): what the setter is given
Passed(setter, value) ==
    CASE setter = "setReal" -> PyValue("float", value.v)
      [] setter = "setInteger" ->
           PyValue("int", IF value.cls = "bool"
                            THEN (IF value.v THEN 1 ELSE 0)
                            ELSE value.v)
      [] setter = "setBoolean" -> PyValue("bool", value.v)
      [] setter = "setString" -> PyValue("str", value.v)

\* a set that passes every value to setInteger: no real variable changes
WrittenAsInteger(setter, vr, v) == values

\* the handle keeps the real variables by value reference; the references of
\* the other types name other variables, which get never reads
Written(setter, vr, v) ==
    IF setter = "setReal" THEN [values EXCEPT ![vr] = v] ELSE values

\* a set that undoes what it wrote when an entry fails
RolledBack == [r \in DOMAIN values |-> 0]

\* set catches nothing and undoes nothing: what the entries before the failing
\* one wrote stays written
AfterFailure == values

\* one iteration of "for name, value in inputDic.items()"; i counts the
\* entries the loop has reached
SetEntry(t) ==
    /\ pc[t] = "set"
    /\ arg[t] # <<>>
    /\ LET e == Head(arg[t]) IN
         IF e.name \notin DOMAIN vrs
           THEN /\ lock' = LeaveSet(t, TRUE)
                /\ Done(t, KeyErr(e.name))
                /\ values' = AfterFailure
                /\ UNCHANGED <<lastCall, sinceStep>>
         ELSE IF Setter(e.value) \notin Setters
           THEN /\ lock' = LeaveSet(t, TRUE)
                /\ Done(t, TypeErr(e.name))
                /\ values' = AfterFailure
                /\ UNCHANGED <<lastCall, sinceStep>>
         ELSE /\ sinceStep' = IF Stepping THEN sinceStep \cup {op[t]}
                                           ELSE sinceStep
              /\ \E ok \in BOOLEAN :
                   /\ lastCall' =
                        IssueWith(Setter(e.value), t, ok,
                                  SetArgs(vrs[e.name],
                                          Passed(Setter(e.value), e.value)))
                   /\ IF ok
                        THEN /\ values' = Written(Setter(e.value), vrs[e.name],
                                                   e.value.v)
                             /\ arg' = [arg EXCEPT ![t] = Tail(@)]
                             /\ i' = [i EXCEPT ![t] = @ + 1]
                             /\ UNCHANGED <<lock, pc, time, data, res>>
                        ELSE /\ lock' = LeaveSet(t, TRUE)
                             /\ Done(t, Err("EngineError"))
                             /\ values' = AfterFailure
    /\ UNCHANGED <<state, start, stop, step, callers, op>>

\* the loop of set is exhausted
SetReturn(t) ==
    /\ pc[t] = "set"
    /\ arg[t] = <<>>
    /\ lock' = LeaveSet(t, FALSE)
    /\ Done(t, Ok(None))
    /\ UNCHANGED <<state, start, stop, step, values, lastCall, sinceStep, callers, op>>

----------------------------------------------------------------------------
(* get(name) *)

\* get is public and takes no lock and checks no state
GetCall(t, name) ==
    /\ Enter(t, "get")
    /\ Goto(t, "get", <<name>>)
    /\ UNCHANGED <<state, lock, start, stop, step, values, lastCall, sinceStep, callers,
                   i, time, data>>

\* a get that reads the reference of x whatever the name
GetRealOfX(t) ==
    /\ pc[t] = "get"
    /\ LET name == Head(arg[t]) IN
         IF name \notin DOMAIN vrs
           THEN /\ Done(t, KeyErr(name))
                /\ UNCHANGED lastCall
           ELSE /\ lastCall' = IssueWith("getReal", t, TRUE, GetArgs(vrs["x"]))
                /\ Done(t, Ok(values[vrs["x"]]))
    /\ UNCHANGED <<state, lock, start, stop, step, values, sinceStep, callers, op>>

\* return self.fmu.getReal([self.vrs[name]])[0]
GetReal(t) ==
    /\ pc[t] = "get"
    /\ LET name == Head(arg[t]) IN
         IF name \notin DOMAIN vrs
           THEN /\ Done(t, KeyErr(name))
                /\ UNCHANGED lastCall
           ELSE /\ lastCall' = IssueWith("getReal", t, TRUE, GetArgs(vrs[name]))
                /\ Done(t, Ok(values[vrs[name]]))
    /\ UNCHANGED <<state, lock, start, stop, step, values, sinceStep, callers, op>>

----------------------------------------------------------------------------
(* run(outputs) *)

RunCall(t, outputs) ==
    /\ Enter(t, "run")
    /\ IF RequireOk("INITIALIZED")
         THEN /\ Goto(t, "run_state", outputs)
              /\ UNCHANGED <<i, time, data>>
         ELSE Done(t, StateErr("INITIALIZED", "run"))
    /\ UNCHANGED <<state, lock, start, stop, step, values, lastCall, sinceStep, callers>>

\* self.state = FMUState.SIMULATION
RunState(t) ==
    /\ pc[t] = "run_state"
    /\ state' = "SIMULATION"
    /\ pc' = [pc EXCEPT ![t] = "run_time"]
    /\ UNCHANGED <<lock, start, stop, step, values, lastCall, sinceStep, callers,
                   op, arg, i, time, data, res>>

\* time = self.start
RunTime(t) ==
    /\ pc[t] = "run_time"
    /\ time' = [time EXCEPT ![t] = start]
    /\ pc' = [pc EXCEPT ![t] = "run_comp"]
    /\ UNCHANGED <<state, lock, start, stop, step, values, lastCall, sinceStep, callers,
                   op, arg, i, data, res>>

\* data = {name: [self.get(name)] for name in outputs}; data["time"] = [time]
RunComprehension(t) ==
    /\ pc[t] = "run_comp"
    /\ IF i[t] > Len(arg[t])
         THEN /\ data' = [data EXCEPT ![t] = ("time" :> <<time[t]>>) @@ @]
              /\ pc' = [pc EXCEPT ![t] = "run_init"]
              /\ i' = [i EXCEPT ![t] = 1]
              /\ UNCHANGED <<lastCall, arg, time, res>>
         ELSE IF arg[t][i[t]] \notin DOMAIN vrs
           THEN /\ Done(t, KeyErr(arg[t][i[t]]))
                /\ UNCHANGED lastCall
         ELSE /\ lastCall' = IssueWith("getReal", t, TRUE,
                                        GetArgs(vrs[arg[t][i[t]]]))
              /\ data' = [data EXCEPT ![t] =
                            (arg[t][i[t]] :> <<values[vrs[arg[t][i[t]]]]>>) @@ @]
              /\ i' = [i EXCEPT ![t] = @ + 1]
              /\ UNCHANGED <<pc, arg, time, res>>
    /\ UNCHANGED <<state, lock, start, stop, step, values, sinceStep, callers, op>>

\* for name in outputs: data[name] = []; val = getReal; data[name].append(val)
RunInitialSample(t) ==
    /\ pc[t] = "run_init"
    /\ IF i[t] > Len(arg[t])
         THEN /\ pc' = [pc EXCEPT ![t] = "run_lock"]
              /\ i' = [i EXCEPT ![t] = 1]
              /\ UNCHANGED <<lastCall, data>>
         ELSE /\ lastCall' = IssueWith("getReal", t, TRUE,
                                        GetArgs(vrs[arg[t][i[t]]]))
              /\ data' = [data EXCEPT ![t][arg[t][i[t]]] =
                            <<values[vrs[arg[t][i[t]]]]>>]
              /\ i' = [i EXCEPT ![t] = @ + 1]
              /\ UNCHANGED pc
    /\ UNCHANGED <<state, lock, start, stop, step, values, sinceStep, callers,
                   op, arg, time, res>>

RunLock(t) == Acquire(t, "run_lock", "run_loop")

\* a run that puts the state back before it lets the exception through
StepFailureResets(t) ==
    /\ lock' = WithExit(t, TRUE)
    /\ Done(t, Err("EngineError"))
    /\ state' = "INITIALIZED"

\* doStep raises: the exception leaves the loop, the "with self.lock:" block
\* and run; self.state is not assigned
StepFailure(t) ==
    /\ lock' = WithExit(t, TRUE)
    /\ Done(t, Err("EngineError"))
    /\ UNCHANGED state

\* while time < self.stop: doStep; time += self.step; data["time"].append(time)
\* and, when the loop is left, the return of the arrays.  One iteration reads
\* self.stop and self.step together: the thread holds the lock, and only an
\* initialize that passed its check before the run can write them meanwhile.
RunLoop(t) ==
    /\ pc[t] = "run_loop"
    /\ sinceStep' = {}
    /\ IF time[t] < stop
         THEN \E ok \in BOOLEAN :
                /\ Len(data[t]["time"]) <= MaxDoSteps
                /\ lastCall' = IssueWith("doStep", t, ok, StepArgs(time[t], step))
                /\ IF ok
                     THEN /\ time' = [time EXCEPT ![t] = @ + step]
                          /\ data' = [data EXCEPT ![t]["time"] =
                                        Append(@, time[t] + step)]
                          /\ pc' = [pc EXCEPT ![t] = "run_sample"]
                          /\ UNCHANGED <<state, lock, arg, i, res>>
                     ELSE StepFailure(t)
         ELSE /\ lock' = WithExit(t, FALSE)
              /\ Done(t, Ok(data[t]))
              /\ UNCHANGED <<state, lastCall>>
    /\ UNCHANGED <<start, stop, step, values, callers, op>>

\* a loop that samples nothing after its doStep
RunSampleNothing(t) ==
    /\ pc[t] = "run_sample"
    /\ pc' = [pc EXCEPT ![t] = "run_loop"]
    /\ i' = [i EXCEPT ![t] = 1]
    /\ UNCHANGED <<state, lock, start, stop, step, values, lastCall, sinceStep,
                   callers, op, arg, time, data, res>>

\* for name in outputs: val = getReal; data[name].append(val)
RunSample(t) ==
    /\ pc[t] = "run_sample"
    /\ IF i[t] > Len(arg[t])
         THEN /\ pc' = [pc EXCEPT ![t] = "run_loop"]
              /\ i' = [i EXCEPT ![t] = 1]
              /\ UNCHANGED <<lastCall, data>>
         ELSE /\ lastCall' = IssueWith("getReal", t, TRUE,
                                        GetArgs(vrs[arg[t][i[t]]]))
              /\ data' = [data EXCEPT ![t][arg[t][i[t]]] =
                            Append(@, values[vrs[arg[t][i[t]]]])]
              /\ i' = [i EXCEPT ![t] = @ + 1]
              /\ UNCHANGED pc
    /\ UNCHANGED <<state, lock, start, stop, step, values, sinceStep, callers,
                   op, arg, time, res>>

----------------------------------------------------------------------------
(* the caller threads *)

\* the methods called with arguments of the given sets
Step(W, D, O, N) ==
    \/ \E t \in callers, w \in W : InitializeCall(t, w)
    \/ \E t \in callers : InitializeStart(t)
    \/ \E t \in callers : InitializeStop(t)
    \/ \E t \in callers : InitializeStep(t)
    \/ \E t \in callers : InitializeLock(t)
    \/ \E t \in callers : InitializeSetup(t)
    \/ \E t \in callers : InitializeEnter(t)
    \/ \E t \in callers : InitializeState(t)
    \/ \E t \in callers : ExitInitializationCall(t)
    \/ \E t \in callers : ExitInitializationLock(t)
    \/ \E t \in callers : ExitInitializationExit(t)
    \/ \E t \in callers : ExitInitializationState(t)
    \/ \E t \in callers, d \in D : InitParametersCall(t, d)
    \/ \E t \in callers : InitParametersLock(t)
    \/ \E t \in callers, d \in D : UpdateInputsCall(t, d)
    \/ \E t \in callers : UpdateInputsLock(t)
    \/ \E t \in callers, d \in D : SetCall(t, d)
    \/ \E t \in callers : SetEntry(t)
    \/ \E t \in callers : SetReturn(t)
    \/ \E t \in callers, n \in N : GetCall(t, n)
    \/ \E t \in callers : GetReal(t)
    \/ \E t \in callers, o \in O : RunCall(t, o)
    \/ \E t \in callers : RunState(t)
    \/ \E t \in callers : RunTime(t)
    \/ \E t \in callers : RunComprehension(t)
    \/ \E t \in callers : RunInitialSample(t)
    \/ \E t \in callers : RunLock(t)
    \/ \E t \in callers : RunLoop(t)
    \/ \E t \in callers : RunSample(t)
    \/ \E t \in callers : TerminateCall(t)
    \/ \E t \in callers : TerminateLock(t)
    \/ \E t \in callers : TerminateTerminate(t)
    \/ \E t \in callers : TerminateState(t)

Next == Step(Windows, InputDics, OutputLists, VarNames)

\* any number of caller threads share the instance
Spec == Init /\ [][Next]_vars

\* the windows, output lists and dictionaries a lone caller passes: windows
\* that are and are not a whole number of steps, empty, backwards and with a
\* step of zero; output lists that repeat a name or name an undeclared one
RunWindows ==
    { [start |-> a, stop |-> b, step |-> d] :
        a \in {0, 1}, b \in 0..MaxRunStop, d \in 0..MaxRunStep }

RunOutputLists == { <<>>, <<"x">>, <<"x", "x">>, <<"x", "y">>, <<"x", "X">> }

\* one caller thread drives the instance through its life
InitLone == Init /\ callers = {"T1"}

NextRun == Step(RunWindows, InputDics, RunOutputLists, VarNames)

SpecRun == InitLone /\ [][NextRun]_vars

----------------------------------------------------------------------------
(* What a step or a state shows of the calls made *)

\* the state each gated method requires
Required ==
    [initialize |-> "INSTANTIATED",
     initParameters |-> "INITIALIZATION_MODE",
     exitInitialization |-> "INITIALIZATION_MODE",
     run |-> "INITIALIZED",
     updateInputs |-> "SIMULATION"]

GatedMethods == DOMAIN Required

LifecycleMethods == GatedMethods \cup {"terminate"}

\* in this step thread t calls method m
Calls(t, m) ==
    /\ pc[t] = "idle"
    /\ op'[t] = m
    /\ <<pc[t], op[t], res[t]>>' # <<pc[t], op[t], res[t]>>

\* in this step the method m of thread t returns or raises
Completes(t, m) ==
    /\ op'[t] = m
    /\ pc'[t] = "idle"
    /\ (pc[t] # "idle" \/ Calls(t, m))

\* in this step a call reaches the handle
IssuesCall == lastCall'.tick # lastCall.tick

Issues(c) == IssuesCall /\ lastCall'.op = c

\* thread t is inside a "with self.lock:" block
InsideWith(t) ==
    \/ pc[t] \in {"init_setup", "init_enter", "init_state", "exit_call",
                  "exit_state", "run_loop", "run_sample", "term_call",
                  "term_state"}
    \/ pc[t] = "set" /\ op[t] \in {"initParameters", "updateInputs"}

\* thread t is inside run, past its state check
InsideRun(t) ==
    pc[t] \in {"run_state", "run_time", "run_comp", "run_init", "run_lock",
               "run_loop", "run_sample"}

----------------------------------------------------------------------------
(* C1: a gated method (initialize, initParameters, exitInitialization, run,
   updateInputs) called in any state other than the one it requires raises
   the state error at once and leaves the lifecycle state unchanged. *)
C1_WrongStateRejected ==
    [][\A t \in Threads, m \in GatedMethods :
          Calls(t, m) /\ state # Required[m] =>
              /\ pc'[t] = "idle"
              /\ res'[t].err = "RuntimeError"
              /\ state' = state]_vars

\* a gated method has raised the state error in a state it does not accept
C1_Witness ==
    \E t \in Threads :
        /\ pc[t] = "idle"
        /\ op[t] \in GatedMethods
        /\ res[t].err = "RuntimeError"
        /\ state # Required[op[t]]
        /\ res[t].msg = <<op[t], Required[op[t]], state>>

(* C2: every call that reaches the handle is issued in the state its method
   requires: setupExperiment and enterInitializationMode in INSTANTIATED,
   exitInitializationMode and the setter calls of initParameters in
   INITIALIZATION_MODE, doStep and the setter calls of updateInputs in
   SIMULATION, under any interleaving of the caller threads. *)
C2_CallsInRequiredState ==
    [][/\ Issues("setupExperiment") => state = "INSTANTIATED"
       /\ Issues("enterInitializationMode") => state = "INSTANTIATED"
       /\ Issues("exitInitializationMode") => state = "INITIALIZATION_MODE"
       /\ Issues("doStep") => state = "SIMULATION"
       /\ \A t \in Threads :
            IssuesCall /\ lastCall'.th = t /\ lastCall'.op \in Setters =>
                /\ op[t] = "initParameters" => state = "INITIALIZATION_MODE"
                /\ op[t] = "updateInputs" => state = "SIMULATION"]_vars

(* C3, as claimed: every terminate call returns normally (none raises) with
   the state TERMINATED, and a call made in TERMINATED issues no engine
   call. *)
C3_TerminateNeverRaises ==
    [][\A t \in Threads :
          /\ Completes(t, "terminate") =>
                res'[t].err = "none" /\ state' = "TERMINATED"
          /\ Calls(t, "terminate") /\ state = "TERMINATED" =>
                lastCall' = lastCall]_vars

(* C3, amended: terminate is idempotent provided the handle's terminate call
   succeeds.  A terminate call made in TERMINATED returns at once, normally,
   issuing no engine call and leaving the state TERMINATED; every terminate
   call that returns normally returns with the state TERMINATED; and the only
   way a terminate call raises is that the handle failed its terminate call,
   which leaves the state as it was. *)
C3_TerminateIdempotent ==
    [][\A t \in Threads :
          /\ Calls(t, "terminate") /\ state = "TERMINATED" =>
                /\ pc'[t] = "idle"
                /\ res'[t].err = "none"
                /\ lastCall' = lastCall
                /\ state' = "TERMINATED"
          /\ Completes(t, "terminate") =>
                \/ res'[t].err = "none" /\ state' = "TERMINATED"
                \/ /\ res'[t].err = "EngineError"
                   /\ Issues("terminate") /\ ~lastCall'.ok
                   /\ state' = state]_vars

\* a single caller terminated the instance, read a value, and called terminate
\* again: the last call the handle saw is still the getReal
C3_Witness ==
    /\ callers = {"T1"}
    /\ op["T1"] = "terminate" /\ pc["T1"] = "idle"
    /\ res["T1"].err = "none"
    /\ state = "TERMINATED"
    /\ lastCall.op = "getReal"

(* C4: TERMINATED is absorbing: once the state is TERMINATED no step changes
   it, and no step of initialize, initParameters, exitInitialization,
   updateInputs, run or terminate issues a call to the handle, under any
   interleaving of the caller threads. *)
C4_TerminatedAbsorbing ==
    [][state = "TERMINATED" =>
          /\ state' = "TERMINATED"
          /\ IssuesCall => op'[lastCall'.th] \notin LifecycleMethods]_vars

(* C5: when run returns normally the state is INITIALIZED again (so that a
   second run passes its state check). *)
C5_RunReturnsToInitialized ==
    [][\A t \in Threads :
          Completes(t, "run") /\ res'[t].err = "none" =>
              state' = "INITIALIZED"]_vars

(* C6: when the handle fails a doStep, run stops at once (its frame is gone,
   so it issues no further doStep or getReal), the error reaches the caller,
   and the state is not assigned: it stays what it was, which is SIMULATION
   when no other thread drives the instance. *)
C6_StepFailureAborts ==
    [][\A t \in Threads :
          Issues("doStep") /\ lastCall'.th = t /\ ~lastCall'.ok =>
              /\ pc'[t] = "idle"
              /\ res'[t].err = "EngineError"
              /\ state' = state
              /\ callers = {t} => state' = "SIMULATION"]_vars

\* a single caller's run was aborted by a failed doStep
C6_Witness ==
    /\ callers = {"T1"}
    /\ op["T1"] = "run" /\ pc["T1"] = "idle"
    /\ res["T1"].err = "EngineError"
    /\ lastCall.op = "doStep" /\ ~lastCall.ok
    /\ state = "SIMULATION"

(* C7: the lock is held exactly while its holder is inside a
   "with self.lock:" block: no thread that has returned or raised, and no
   thread outside such a block, holds it. *)
C7_LockScoped ==
    /\ lock \in callers \cup {None}
    /\ \A t \in Threads : lock = t <=> InsideWith(t)

\* a run failed inside its locked loop, and a terminate called by the other
\* thread afterwards took the lock and terminated the instance
C7_Witness ==
    /\ op["T1"] = "run" /\ pc["T1"] = "idle"
    /\ res["T1"].err = "EngineError"
    /\ op["T2"] = "terminate" /\ pc["T2"] = "idle"
    /\ res["T2"].err = "none"
    /\ lastCall.op = "terminate" /\ lastCall.th = "T2"
    /\ state = "TERMINATED"
    /\ lock = None

(* C8: the handle's log never shows a setter call between two consecutive
   doStep calls of one run: when a doStep is issued, no setter was called
   since the previous doStep of the loop in progress. *)
C8_NoSetterBetweenSteps ==
    [][Issues("doStep") => sinceStep = {}]_vars

(* C9: every call to the handle is made while the calling thread holds the
   instance lock. *)
C9_CallsUnderLock ==
    [][IssuesCall => lock = lastCall'.th]_vars

(* C10: at most one thread at a time is inside run past its state check: of
   two run calls on the same INITIALIZED instance only one passes the gate. *)
C10_OneRunPassesGate ==
    Cardinality({t \in Threads : InsideRun(t)}) <= 1

\* the values a lone caller writes: of each class that set tells apart, and
\* of one it does not support
SetValues ==
    { PyValue("float", 1), PyValue("int", 2), PyValue("bool", TRUE),
      PyValue("str", "a"), PyValue("NoneType", None) }

SetNames == DOMAIN vrs \cup {"X"}

\* the dictionaries of at most two entries over these names and values
SetInputDics ==
    {<<>>}
      \cup { <<Entry(n, v)>> : n \in SetNames, v \in SetValues }
      \cup { d \in { <<Entry(n, v), Entry(m, w)>> :
                        n \in SetNames, v \in SetValues,
                        m \in SetNames, w \in SetValues } :
               d[1].name # d[2].name }

\* the caller that writes and reads runs the shortest window and samples
\* no output
NextSet ==
    Step({w \in Windows : w.step = w.stop}, SetInputDics, {<<>>}, SetNames)

SpecSet == InitLone /\ [][NextSet]_vars

----------------------------------------------------------------------------
(* The series a run returns *)

\* the call of method m by thread t returns normally
Returns(t, m) == Completes(t, m) /\ res'[t].err = "none"

\* thread t is in method m before or after the step
Within(t, m) ==
    /\ op'[t] = m
    /\ pc[t] # "idle" \/ pc'[t] # "idle"

\* the run of thread t returns its arrays
RunReturns(t) == Returns(t, "run")

\* the window is a whole number of steps long
ExactWindow ==
    /\ step > 0
    /\ stop >= start
    /\ (stop - start) % step = 0

Range(f) == {f[k] : k \in DOMAIN f}

(* C11: a run over a window with stop - start = n*step, n >= 0 and step > 0,
   makes exactly n doStep calls: the time series it returns has n+1 entries,
   the first is start and the last is stop, and every requested output series
   has n+1 entries. *)
C11_ExactWindowSeries ==
    [][\A t \in Threads :
         RunReturns(t) /\ ExactWindow =>
           LET r == res'[t].val
               n == (stop - start) \div step
           IN  /\ Len(r["time"]) = n + 1
               /\ r["time"][1] = start
               /\ r["time"][n + 1] = stop
               /\ \A name \in Range(arg[t]) : Len(r[name]) = n + 1]_vars

(* C12: the last entry of the time series a run returns equals stop, also
   when stop - start is no whole number of steps (the final interval is
   shortened), and no entry of the time series exceeds stop. *)
C12_FinalIntervalShortened ==
    [][\A t \in Threads :
         RunReturns(t) /\ step > 0 /\ stop >= start =>
           LET ts == res'[t].val["time"]
           IN  /\ ts[Len(ts)] = stop
               /\ \A k \in DOMAIN ts : ts[k] <= stop]_vars

(* C13: a run of known output names that completes normally returns the
   requested names and "time" as its keys, exactly, and series that all have
   the same length, which is at least 1; the names may repeat in the list. *)
C13_SeriesKeysAndLengths ==
    [][\A t \in Threads :
         RunReturns(t) =>
           LET r == res'[t].val
           IN  /\ DOMAIN r = Range(arg[t]) \cup {"time"}
               /\ \A a, b \in DOMAIN r : Len(r[a]) = Len(r[b])
               /\ Len(r["time"]) >= 1]_vars

\* the output names of the run thread t is calling or executing
RunOutputs(t) == IF pc[t] = "idle" THEN arg'[t] ELSE arg[t]

(* C19: a run called in INITIALIZED with an output name the model does not
   declare is refused before anything happens: no step of it changes the
   state, which stays INITIALIZED, none issues a call to the handle, and it
   ends with the KeyError. *)
C19_UnknownOutputPreflight ==
    [][\A t \in Threads :
         /\ Within(t, "run")
         /\ \E k \in DOMAIN RunOutputs(t) : RunOutputs(t)[k] \notin DOMAIN vrs
         => /\ state = "INITIALIZED" /\ state' = "INITIALIZED"
            /\ ~IssuesCall
            /\ pc'[t] = "idle" => res'[t].err = "KeyError"]_vars

----------------------------------------------------------------------------
(* set and get *)

\* thread t takes the step of set that handles the next entry
SetEntryStep(t) ==
    /\ pc[t] = "set"
    /\ arg[t] # <<>>
    /\ <<pc[t], arg[t]>>' # <<pc[t], arg[t]>>

(* C14: a set whose dictionary has one entry, of a name the model does not
   declare, raises the KeyError of that name, and no call to the handle is
   issued for it: no value is written. *)
C14_UnknownNameRejected ==
    [][\A t \in Threads :
         /\ SetEntryStep(t)
         /\ op[t] = "set" /\ i[t] = 1 /\ Len(arg[t]) = 1
         /\ Head(arg[t]).name \notin DOMAIN vrs
         => /\ pc'[t] = "idle"
            /\ res'[t].err = "KeyError"
            /\ res'[t].msg = <<Head(arg[t]).name>>
            /\ ~IssuesCall
            /\ values' = values]_vars

\* a set of the undeclared name X raised its KeyError on an instance whose
\* handle has been called by nobody
C14_Witness ==
    /\ op["T1"] = "set" /\ pc["T1"] = "idle"
    /\ res["T1"].err = "KeyError" /\ res["T1"].msg = <<"X">>
    /\ lastCall = NoCall
    /\ \A r \in DOMAIN values : values[r] = 0

\* thread t takes the step of get that reads the variable
GetStep(t) ==
    /\ pc[t] = "get"
    /\ pc'[t] # "get"

\* the entry thread t is about to write is a float for a declared name
RealEntry(t) ==
    /\ Head(arg[t]).name \in DOMAIN vrs
    /\ Head(arg[t]).value.cls = "float"

(* C15: set and get go round against a handle that stores what it is given:
   a set entry of a real value v that the handle accepts leaves v stored for
   the name, only a set entry for that name changes what is stored for it,
   and a get of the name returns what is stored; so a get that follows a
   successful set({name: v}) with no write between them returns v. *)
C15_RoundTrip ==
    [][/\ \A t \in Threads :
            SetEntryStep(t) /\ RealEntry(t) /\ IssuesCall /\ lastCall'.ok
            => values'[vrs[Head(arg[t]).name]] = Head(arg[t]).value.v
       /\ \A n \in DOMAIN vrs :
            values'[vrs[n]] # values[vrs[n]]
            => \E t \in Threads : SetEntryStep(t) /\ Head(arg[t]).name = n
       /\ \A t \in Threads :
            GetStep(t) /\ Head(arg[t]) \in DOMAIN vrs
            => /\ res'[t].err = "none"
               /\ res'[t].val = values[vrs[Head(arg[t])]]
               /\ values' = values]_vars

\* x was set to 1 and a get, the last call on the handle, returned 1; y was
\* never written
C15_Witness ==
    /\ op["T1"] = "get" /\ pc["T1"] = "idle"
    /\ res["T1"].err = "none" /\ res["T1"].val = 1
    /\ lastCall.op = "getReal"
    /\ values["vr_x"] = 1 /\ values["vr_y"] = 0

(* C18: set passes each value to the setter of its own type: a float to
   setReal, an int to setInteger, a bool to setBoolean and a str to setString;
   no value reaches the setter of another type. *)
C18_DispatchByType ==
    [][\A t \in Threads :
         SetEntryStep(t) /\ IssuesCall
         => LET cls == Head(arg[t]).value.cls
            IN  /\ cls = "float" => lastCall'.op = "setReal"
                /\ cls = "int" => lastCall'.op = "setInteger"
                /\ cls = "bool" => lastCall'.op = "setBoolean"
                /\ cls = "str" => lastCall'.op = "setString"]_vars

----------------------------------------------------------------------------
(* The lifecycle *)

(* C16: initParameters called in state INSTANTIATED raises the state error
   that names the method initParameters, the required state
   INITIALIZATION_MODE and the actual state INSTANTIATED; it writes no
   parameter and calls no setter. *)
C16_InitParametersTooEarly ==
    [][\A t \in Threads :
         Calls(t, "initParameters") /\ state = "INSTANTIATED"
         => /\ pc'[t] = "idle"
            /\ res'[t].err = "RuntimeError"
            /\ res'[t].msg =
                 <<"initParameters", "INITIALIZATION_MODE", "INSTANTIATED">>
            /\ ~IssuesCall
            /\ values' = values
            /\ state' = state]_vars

\* initParameters was refused on an instance nobody has initialized
C16_Witness ==
    /\ op["T1"] = "initParameters" /\ pc["T1"] = "idle"
    /\ res["T1"].err = "RuntimeError"
    /\ res["T1"].msg[3] = "INSTANTIATED"
    /\ state = "INSTANTIATED"
    /\ lastCall = NoCall

(* C17: with one caller the lifecycle follows the stated transitions: the
   instance is never seen in CREATED; an initialize that returns normally
   takes INSTANTIATED to INITIALIZATION_MODE; an exitInitialization that
   returns normally takes INITIALIZATION_MODE to INITIALIZED; a terminate that
   returns normally leaves TERMINATED, whatever the state was; no step of
   initParameters or updateInputs changes the state. *)
C17_LifecycleTransitions ==
    [][/\ state' # "CREATED"
       /\ \A t \in Threads :
            /\ Returns(t, "initialize")
                 => state = "INSTANTIATED" /\ state' = "INITIALIZATION_MODE"
            /\ Returns(t, "exitInitialization")
                 => state = "INITIALIZATION_MODE" /\ state' = "INITIALIZED"
            /\ Returns(t, "terminate") => state' = "TERMINATED"
            /\ Within(t, "initParameters") \/ Within(t, "updateInputs")
                 => state' = state]_vars

\* the caller wrote x and then terminated the instance: terminate returned
\* normally, its call the last the handle saw
C17_Witness ==
    /\ op["T1"] = "terminate" /\ pc["T1"] = "idle"
    /\ res["T1"].err = "none"
    /\ lastCall.op = "terminate" /\ lastCall.ok
    /\ state = "TERMINATED"
    /\ values["vr_x"] = 1

(* C20: initialize enforces the invariants of the experiment window: when an
   initialize returns normally, having taken the instance to
   INITIALIZATION_MODE, the step it stored is positive and the stop time is
   not before the start time; an initialize given a step <= 0 or a stop
   before the start does not get there. *)
C20_WindowEnforced ==
    [][\A t \in Threads :
         Returns(t, "initialize") /\ state' = "INITIALIZATION_MODE"
         => step > 0 /\ stop >= start]_vars

(* C21: the state changes only when the handle's call has succeeded: with one
   caller, no step of initialize, exitInitialization or terminate changes the
   state except the one that returns normally, so a call in which
   setupExperiment, enterInitializationMode, exitInitializationMode or the
   handle's terminate fails leaves the state as it was when the method was
   called. *)
C21_StateAfterSuccessOnly ==
    [][\A t \in Threads :
         /\ \/ Within(t, "initialize")
            \/ Within(t, "exitInitialization")
            \/ Within(t, "terminate")
         /\ ~(pc'[t] = "idle" /\ res'[t].err = "none")
         => state' = state]_vars

\* the handle failed the terminate call of an initialized instance: terminate
\* raised and the state is INITIALIZED still
C21_Witness ==
    /\ op["T1"] = "terminate" /\ pc["T1"] = "idle"
    /\ res["T1"].err = "EngineError"
    /\ lastCall.op = "terminate" /\ ~lastCall.ok
    /\ state = "INITIALIZED"

----------------------------------------------------------------------------
(* class BasePlotFactory *)

\* strings that are inspected character by character are sequences of
\* characters
Letters ==
    <<"a", "b", "c", "d", "e", "f", "g", "h", "i", "j", "k", "l", "m",
      "n", "o", "p", "q", "r", "s", "t", "u", "v", "w", "x", "y", "z">>
Capitals ==
    <<"A", "B", "C", "D", "E", "F", "G", "H", "I", "J", "K", "L", "M",
      "N", "O", "P", "Q", "R", "S", "T", "U", "V", "W", "X", "Y", "Z">>

\* str.lower() and str.upper()
LowerChar(c) ==
    IF \E k \in DOMAIN Capitals : Capitals[k] = c
      THEN Letters[CHOOSE k \in DOMAIN Capitals : Capitals[k] = c]
      ELSE c
UpperChar(c) ==
    IF \E k \in DOMAIN Letters : Letters[k] = c
      THEN Capitals[CHOOSE k \in DOMAIN Letters : Letters[k] = c]
      ELSE c
Lower(str) == [k \in DOMAIN str |-> LowerChar(str[k])]
Upper(str) == [k \in DOMAIN str |-> UpperChar(str[k])]
Capitalize(str) == [k \in DOMAIN str |-> IF k = 1 THEN UpperChar(str[k]) ELSE str[k]]

temperature == <<"t", "e", "m", "p", "e", "r", "a", "t", "u", "r", "e">>
heat_flux == <<"h", "e", "a", "t", "_", "f", "l", "u", "x">>
solar_radiation ==
    <<"s", "o", "l", "a", "r", "_", "r", "a", "d", "i", "a", "t", "i", "o", "n">>
energy == <<"e", "n", "e", "r", "g", "y">>
\* a data type the configuration does not know
pressure == <<"p", "r", "e", "s", "s", "u", "r", "e">>

\* a float, kept exactly as the fraction n/d
Frac(n, d) == [n |-> n, d |-> d]

\* the lambdas of DATA_CONFIG
Conversion(name, x) ==
    CASE name = "K - 273.15" -> Frac(x.n * 100 - 27315 * x.d, x.d * 100)
      [] name = "x" -> x
      [] name = "J / 3.6e6" -> Frac(x.n, x.d * 3600000)

DATA_CONFIG ==
    (temperature :>
       [y_label |-> "Temperature (°C)", conversion |-> "K - 273.15"])
    @@ (heat_flux :>
       [y_label |-> "Heat Flux (W/m²)", conversion |-> "x"])
    @@ (solar_radiation :>
       [y_label |-> "Irradiance (W/m²)", conversion |-> "x"])
    @@ (energy :>
       [y_label |-> "Energy (kWh)", conversion |-> "J / 3.6e6"])

\* _convert_data(data_type, data_dict): the converted dictionary and the label
\* of the y axis; a dictionary is the sequence of its items
_convert_data(data_type, data_dict) ==
    IF Lower(data_type) \in DOMAIN DATA_CONFIG
      THEN LET config == DATA_CONFIG[Lower(data_type)]
           IN  << [k \in DOMAIN data_dict |->
                     [label |-> data_dict[k].label,
                      array |-> [j \in DOMAIN data_dict[k].array |->
                                   Conversion(config.conversion,
                                              data_dict[k].array[j])]]],
                  config.y_label >>
      ELSE <<data_dict, "Value">>

\* the data types and dictionaries a caller passes
DataTypes ==
    {<<>>} \cup UNION { {ty, Capitalize(ty), Upper(ty)} :
                         ty \in DOMAIN DATA_CONFIG \cup {pressure} }

Arrays ==
    LET Samples == {Frac(0, 1), Frac(27315, 100)}
    IN  {<<>>} \cup {<<x>> : x \in Samples}
               \cup {<<x, z>> : x \in Samples, z \in Samples}

DataDicts ==
    {<<>>} \cup { <<[label |-> "a", array |-> u]>> : u \in Arrays }
           \cup { <<[label |-> "a", array |-> u], [label |-> "b", array |-> w]>> :
                    u \in Arrays, w \in Arrays }

ConvertDataCall(t, data_type, data_dict) ==
    /\ Enter(t, "_convert_data")
    /\ Goto(t, "convert", <<data_type, data_dict>>)
    /\ UNCHANGED <<state, lock, start, stop, step, values, lastCall, sinceStep, callers,
                   i, time, data>>

ConvertDataReturn(t) ==
    /\ pc[t] = "convert"
    /\ Done(t, Ok(_convert_data(arg[t][1], arg[t][2])))
    /\ UNCHANGED <<state, lock, start, stop, step, values, lastCall, sinceStep, callers,
                   op>>

\* one caller of the plot factory; the simulation is left alone
NextPlot ==
    \/ \E t \in callers, ty \in DataTypes, d \in DataDicts :
         ConvertDataCall(t, ty, d)
    \/ \E t \in callers : ConvertDataReturn(t)

SpecPlot == InitLone /\ [][NextPlot]_vars

(* C22: the configuration of the data types gives temperature the y-axis
   label "Temperature (°C)", heat_flux the label "Heat Flux (W)" and
   solar_radiation the label "Irradiance (W/m²)", and _convert_data returns
   that label for the data type it is given. *)
C22_DataTypeLabels ==
    [][\A t \in Threads :
         pc[t] = "convert" /\ pc'[t] = "idle"
         => LET ty == arg[t][1]
                expected ==
                  CASE ty = temperature -> "Temperature (°C)"
                    [] ty = heat_flux -> "Heat Flux (W)"
                    [] ty = solar_radiation -> "Irradiance (W/m²)"
                    [] OTHER -> res'[t].val[2]
            IN  /\ ty \in DOMAIN DATA_CONFIG => DATA_CONFIG[ty].y_label = expected
                /\ res'[t].val[2] = expected]_vars

----------------------------------------------------------------------------
(* What a refused or failed call leaves behind *)

\* the call of thread t is refused by require_state
Refused(t) ==
    /\ \E m \in GatedMethods : Calls(t, m)
    /\ res'[t].err = "RuntimeError"

(* C23: a call that its state check refuses has no partial effect: the step
   that raises the state error issues no call to the handle and leaves the
   experiment window (start, stop, step), the lock, the state and the model's
   values as they were. *)
C23_RefusalHasNoEffect ==
    [][\A t \in Threads :
         Refused(t)
         => /\ ~IssuesCall
            /\ <<start, stop, step>>' = <<start, stop, step>>
            /\ lock' = lock
            /\ state' = state
            /\ values' = values]_vars

\* a second initialize was refused on the initialized
\* instance: the window is the first one and the handle saw no call since
\* exitInitializationMode
C23_Witness ==
    /\ op["T1"] = "initialize" /\ pc["T1"] = "idle"
    /\ res["T1"].err = "RuntimeError"
    /\ res["T1"].msg = <<"initialize", "INSTANTIATED", "INITIALIZED">>
    /\ state = "INITIALIZED"
    /\ lastCall.op = "exitInitializationMode"
    /\ lock = None
    /\ <<start, stop, step>> = <<0, MaxRunStop, 1>>

(* C24: set applies the entries one at a time, in the order of the dictionary,
   and rolls nothing back: a step of its loop handles the first entry not yet
   handled; when the entry is accepted its setter has been called, the value
   of a float is stored and the loop goes on with the next entry; when the
   entry fails (unknown name, unsupported type or a failure of the handle) the
   call ends there, nothing is written for this entry or the entries after it
   and what the entries before it wrote stays. *)
C24_InOrderNoRollback ==
    [][\A t \in Threads :
         SetEntryStep(t)
         => LET e == Head(arg[t])
            IN  IF pc'[t] = "set"
                  THEN /\ Issues(Setter(e.value)) /\ lastCall'.ok
                       /\ arg'[t] = Tail(arg[t])
                       /\ i'[t] = i[t] + 1
                       /\ values' =
                            IF e.value.cls = "float"
                              THEN [values EXCEPT ![vrs[e.name]] = e.value.v]
                              ELSE values
                  ELSE /\ res'[t].err \in {"KeyError", "TypeError", "EngineError"}
                       /\ res'[t].err = "EngineError" <=> IssuesCall
                       /\ IssuesCall => ~lastCall'.ok
                       /\ values' = values]_vars

\* a set of two entries wrote 1 to x and failed on its second entry, of a type
\* set does not support: x is 1 still and setReal is the last call
C24_Witness ==
    /\ op["T1"] = "set" /\ pc["T1"] = "idle"
    /\ res["T1"].err = "TypeError"
    /\ lastCall.op = "setReal" /\ lastCall.ok
    /\ values["vr_x"] = 1 /\ values["vr_y"] = 0

(* C25: for a declared name whose value is neither a float, an int, a bool nor
   a str, set raises the TypeError that names the variable, and calls no
   setter for that entry. *)
C25_UnsupportedType ==
    [][\A t \in Threads :
         /\ SetEntryStep(t)
         /\ Head(arg[t]).name \in DOMAIN vrs
         /\ Head(arg[t]).value.cls \notin {"float", "int", "bool", "str"}
         => /\ pc'[t] = "idle"
            /\ res'[t].err = "TypeError"
            /\ res'[t].msg = <<Head(arg[t]).name>>
            /\ ~IssuesCall
            /\ values' = values]_vars

\* a set of None to y was refused on an instance whose handle nobody has
\* called
C25_Witness ==
    /\ op["T1"] = "set" /\ pc["T1"] = "idle"
    /\ res["T1"].err = "TypeError"
    /\ res["T1"].msg = <<"y">>
    /\ lastCall = NoCall

(* C26: get(name) raises the KeyError of the name and calls nothing on the
   handle when the model does not declare the name; otherwise it issues one
   getReal, for the reference of that name, and returns the value stored
   under it; in both cases the state and the model's values are as before. *)
C26_GetReadsOnly ==
    [][\A t \in Threads :
         /\ Calls(t, "get") => ~IssuesCall /\ pc'[t] = "get"
         /\ Calls(t, "get") \/ GetStep(t)
              => state' = state /\ values' = values
         /\ GetStep(t)
              => LET name == Head(arg[t])
                 IN  IF name \in DOMAIN vrs
                       THEN /\ Issues("getReal")
                            /\ lastCall'.args = GetArgs(vrs[name])
                            /\ res'[t].err = "none"
                            /\ res'[t].val = values[vrs[name]]
                       ELSE /\ ~IssuesCall
                            /\ res'[t].err = "KeyError"
                            /\ res'[t].msg = <<name>>]_vars

\* y was set to 1 and a get read it back from the reference of y, the last
\* call on the handle; x was never written
C26_Witness ==
    /\ op["T1"] = "get" /\ pc["T1"] = "idle"
    /\ res["T1"].err = "none" /\ res["T1"].val = 1
    /\ lastCall.op = "getReal" /\ lastCall.args = GetArgs("vr_y")
    /\ values["vr_y"] = 1 /\ values["vr_x"] = 0

----------------------------------------------------------------------------
(* The calls of a run *)

\* the list names no variable twice
Distinct(names) == Cardinality(Range(names)) = Len(names)

\* thread t is in run ahead of its lock and of its first doStep, and issues a
\* getReal for the output name its loop is at
InitialSample(t) ==
    /\ op[t] = "run"
    /\ pc[t] \in {"run_comp", "run_init"}
    /\ Issues("getReal") /\ lastCall'.th = t

(* C27: ahead of its first doStep a run samples every requested output once:
   the handle sees one getReal per requested output, so a getReal issued
   there is for an output that this run has not sampled yet; and the first
   entry of the time series returned is start. *)
C27_SampledOnceAtStart ==
    [][\A t \in Threads :
         /\ InitialSample(t) /\ Distinct(arg[t])
              => /\ lastCall'.args = GetArgs(vrs[arg[t][i[t]]])
                 /\ arg[t][i[t]] \notin DOMAIN data[t]
         /\ RunReturns(t) => res'[t].val["time"][1] = start]_vars

\* how many times the list names the variable
Occurrences(names, n) == Cardinality({k \in DOMAIN names : names[k] = n})

(* C28: in a run the k-th doStep (k >= 1) is called with the time reached by
   k-1 additions of step to start, and with step as its size; each time
   appended is the previous one plus step; and when a doStep is issued, or
   the loop is left, every requested output has been sampled once after each
   doStep so far: a sample after a doStep is a getReal for the output the
   loop is at, and an output the list names c times has 1 + c*(k-1) entries
   ahead of the k-th doStep. *)
C28_StepsAndSamples ==
    [][\A t \in Threads :
         LET k == Len(data[t]["time"]) IN
         /\ pc[t] = "run_loop" /\ pc'[t] # "run_loop"
              => \A n \in Range(arg[t]) :
                   Len(data[t][n]) = 1 + Occurrences(arg[t], n) * (k - 1)
         /\ pc[t] = "run_loop" /\ Issues("doStep")
              => /\ lastCall'.th = t
                 /\ lastCall'.args = StepArgs(start + (k - 1) * step, step)
                 /\ data[t]["time"][k] = start + (k - 1) * step
         /\ pc[t] = "run_loop" /\ pc'[t] = "run_sample"
              => data'[t]["time"] = Append(data[t]["time"], data[t]["time"][k] + step)
         /\ pc[t] = "run_sample" /\ IssuesCall
              => /\ Issues("getReal")
                 /\ lastCall'.args = GetArgs(vrs[arg[t][i[t]]])
                 /\ i'[t] = i[t] + 1]_vars

\* a run of x over the window from 0 to 2 in steps of 1 returned: two doStep
\* calls, three times and three samples of x
C28_Witness ==
    /\ op["T1"] = "run" /\ pc["T1"] = "idle"
    /\ res["T1"].err = "none"
    /\ DOMAIN res["T1"].val = {"x", "time"}
    /\ res["T1"].val["time"] = <<0, 1, 2>>
    /\ Len(res["T1"].val["x"]) = 3
    /\ lastCall.op = "getReal"

----------------------------------------------------------------------------
(* The window and the order of the states *)

\* an initialize has stored its whole window: it is past line 106, or it
\* failed in a call to the handle, or it brought the instance to a state that
\* only it leads to
WindowStored ==
    \/ state \in {"INITIALIZATION_MODE", "INITIALIZED", "SIMULATION"}
    \/ \E t \in Threads :
         /\ op[t] = "initialize"
         /\ \/ pc[t] \in {"init_lock", "init_setup", "init_enter", "init_state"}
            \/ pc[t] = "idle" /\ res[t].err = "EngineError"

(* C29: the experiment window is set once: when an initialize has stored it,
   no step of any later or concurrent call changes start, stop or step, be it
   of an initialize that is refused, that raced with the first, or that
   follows an initialize in which a call to the handle failed. *)
C29_WindowSetOnce ==
    [][WindowStored => <<start, stop, step>>' = <<start, stop, step>>]_vars

(* C30: the state only moves forward in the order INSTANTIATED,
   INITIALIZATION_MODE, INITIALIZED, SIMULATION, TERMINATED, whatever the
   interleaving; the one backward move allowed is from SIMULATION to
   INITIALIZED in the step in which a run returns normally. *)
C30_StateMovesForward ==
    [][\/ Rank(state') >= Rank(state)
       \/ /\ state = "SIMULATION" /\ state' = "INITIALIZED"
          /\ \E t \in Threads : RunReturns(t)]_vars

----------------------------------------------------------------------------
(* updateInputs and the stepping loop *)

\* the run of thread u is between two of its doStep calls: one was issued
\* and the loop condition holds for another
BetweenSteps(u) ==
    /\ op[u] = "run"
    /\ pc[u] \in {"run_loop", "run_sample"}
    /\ Len(data[u]["time"]) > 1
    /\ time[u] < stop

\* no setter call of an updateInputs reaches the handle once a stepping loop
\* in progress has issued a doStep: the loop holds the lock until it is left
UpdateInputsNeverMidRun == "updateInputs" \notin sinceStep

(* C31: updateInputs can write inputs mid-run: an updateInputs call made
   while a run is in progress and between two of its doStep calls, the state
   being SIMULATION, can enter its "with self.lock:" block there, so that its
   setter calls reach the handle between the two doStep calls. *)
C31_UpdateInputsWritesMidRun ==
    \A t, u \in Threads :
        /\ op[t] = "updateInputs" /\ pc[t] = "ui_lock"
        /\ state = "SIMULATION"
        /\ BetweenSteps(u)
        => ENABLED UpdateInputsLock(t)

----------------------------------------------------------------------------
(* The end of the stepping loop *)

\* in this step a doStep of the run of thread t returns: the loop goes on to
\* add the step to time and to sample the outputs
StepReturns(t) == pc[t] = "run_loop" /\ pc'[t] = "run_sample"

(* C32: a run on an INITIALIZED instance makes a finite number of doStep
   calls and then returns or raises, whatever experiment window initialize
   stored and as long as the handle's calls return: every doStep that returns
   leaves less of the window ahead, stop - time being smaller after it than
   before.  (The loop tests time < self.stop only: a step after which
   stop - time is what it was brings the same test back for ever.) *)
C32_RunTerminates ==
    [][\A t \in Threads :
         StepReturns(t) => stop - time'[t] < stop - time[t]]_vars

----------------------------------------------------------------------------
(* Calls that cannot return *)

\* the positions at which a thread is about to enter a "with self.lock:"
\* block: it waits there while another thread holds the lock
LockLabels ==
    {"init_lock", "exit_lock", "ip_lock", "ui_lock", "run_lock", "term_lock"}

\* no thread asks for the lock it holds: set, which initParameters and
\* updateInputs call inside their block, takes no lock
NoReacquire == \A t \in Threads : pc[t] \in LockLabels => lock # t

\* the stepping loop of thread u cannot end: its test time < self.stop holds
\* and no step adds anything to time
Endless(u) ==
    /\ op[u] = "run"
    /\ pc[u] \in {"run_loop", "run_sample"}
    /\ step <= 0
    /\ time[u] < stop

\* the windows with a step and without one, a dictionary and an output list
WaitWindows == { [start |-> 0, stop |-> MaxStop, step |-> d] : d \in {0, MaxStop} }

\* any of the caller threads calls any method
NextWait ==
    Step(WaitWindows, {<<Entry("x", PyValue("float", 1))>>}, {<<>>}, {"x"})

SpecWait == Init /\ [][NextWait]_vars

(* C33: no deadlock: with any number of caller threads, every invoked
   operation returns or raises in the end as long as the handle's calls
   return.  No thread asks for the lock while it holds it, and no call is in
   a position it can never leave: waiting to enter its "with self.lock:"
   block while the lock is held by a run whose loop cannot end. *)
C33_EveryOperationReturns ==
    /\ NoReacquire
    /\ \A t, u \in Threads :
         ~(pc[t] \in LockLabels /\ lock = u /\ Endless(u))

----------------------------------------------------------------------------
(* SimulationPlotFactory._convert_time_unit *)

\* the longest time array a caller passes
MaxTimes == 3

\* comparisons of a float x = n/d (d > 0) with a whole number k
AtLeast(x, k) == x.n >= k * x.d
Above(x, k) == x.n > k * x.d

\* np.max(time_arr) of an array that is not empty
NpMax(time_arr) ==
    LET x == CHOOSE j \in DOMAIN time_arr :
                 \A k \in DOMAIN time_arr :
                     time_arr[k].n * time_arr[j].d <= time_arr[j].n * time_arr[k].d
    IN  time_arr[x]

\* time_arr / k, element by element
DividedBy(time_arr, k) ==
    [j \in DOMAIN time_arr |-> Frac(time_arr[j].n, time_arr[j].d * k)]

\* the same with the test of two days made strict
ConvertTimeUnitStrictDays(time_arr) ==
    IF Len(time_arr) = 0
      THEN <<time_arr, "Time (s)">>
      ELSE LET max_time == NpMax(time_arr)
           IN  IF Above(max_time, 172800)
                 THEN <<DividedBy(time_arr, 86400), "Time (days)">>
                 ELSE IF Above(max_time, 3600)
                        THEN <<DividedBy(time_arr, 3600), "Time (h)">>
                        ELSE <<time_arr, "Time (s)">>

\* _convert_time_unit(time_arr): the converted array and the label of the
\* time axis
_convert_time_unit(time_arr) ==
    IF Len(time_arr) = 0
      THEN <<time_arr, "Time (s)">>
      ELSE LET max_time == NpMax(time_arr)
           IN  IF AtLeast(max_time, 172800)
                 THEN <<DividedBy(time_arr, 86400), "Time (days)">>
                 ELSE IF Above(max_time, 3600)
                        THEN <<DividedBy(time_arr, 3600), "Time (h)">>
                        ELSE <<time_arr, "Time (s)">>

\* the times, in seconds, around the two thresholds
TimeSamples ==
    {Frac(0, 1), Frac(3600, 1), Frac(3601, 1), Frac(172799, 1), Frac(172800, 1)}

TimeArrays == UNION { [1..n -> TimeSamples] : n \in 0..MaxTimes }

ConvertTimeUnitCall(t, time_arr) ==
    /\ Enter(t, "_convert_time_unit")
    /\ Goto(t, "time_unit", <<time_arr>>)
    /\ UNCHANGED <<state, lock, start, stop, step, values, lastCall, sinceStep, callers,
                   i, time, data>>

ConvertTimeUnitReturn(t) ==
    /\ pc[t] = "time_unit"
    /\ Done(t, Ok(_convert_time_unit(arg[t][1])))
    /\ UNCHANGED <<state, lock, start, stop, step, values, lastCall, sinceStep, callers,
                   op>>

\* one caller of the simulation plot factory; the simulation is left alone
NextTime ==
    \/ \E t \in callers, a \in TimeArrays : ConvertTimeUnitCall(t, a)
    \/ \E t \in callers : ConvertTimeUnitReturn(t)

SpecTime == InitLone /\ [][NextTime]_vars

(* C34: _convert_time_unit picks the unit of the time axis from the largest
   time value: an empty array, or one whose values are all at most 3600, is
   returned as it is with "Time (s)"; an array with a value above 3600 and all
   values below 172800 is divided by 3600 with "Time (h)"; an array with a
   value of 172800 or more is divided by 86400 with "Time (days)". *)
C34_TimeUnitFromLargestValue ==
    [][\A t \in Threads :
         pc[t] = "time_unit" /\ pc'[t] = "idle"
         => LET a == arg[t][1]
                out == res'[t].val
                Some(P(_)) == \E j \in DOMAIN a : P(a[j])
                Over3600(x) == x.n > 3600 * x.d
                From172800(x) == x.n >= 172800 * x.d
            IN  /\ ~Some(Over3600) => out = <<a, "Time (s)">>
                /\ Some(Over3600) /\ ~Some(From172800)
                   => /\ out[2] = "Time (h)"
                      /\ Len(out[1]) = Len(a)
                      /\ \A j \in DOMAIN a :
                           out[1][j] = Frac(a[j].n, a[j].d * 3600)
                /\ Some(From172800)
                   => /\ out[2] = "Time (days)"
                      /\ Len(out[1]) = Len(a)
                      /\ \A j \in DOMAIN a :
                           out[1][j] = Frac(a[j].n, a[j].d * 86400)]_vars

\* a call with the times 3600 and 172800 has returned days
C34_Witness ==
    \E t \in Threads :
        /\ op[t] = "_convert_time_unit" /\ pc[t] = "idle"
        /\ res[t] = Ok(<< <<Frac(3600, 86400), Frac(172800, 86400)>>,
                          "Time (days)" >>)

====
